---- MODULE Spec2Model ----
(***************************************************************************)
(* BoxBlurMaterial (src/src/materials/BoxBlurMaterial.js): the shader      *)
(* material of a depth-aware box blur.  The material keeps compile-time    *)
(* constants in `defines` (strings keyed by macro name, a key being        *)
(* present or absent), per-frame inputs in `uniforms`, and the             *)
(* recompilation flag `needsUpdate`.                                       *)
(*                                                                         *)
(* JavaScript numbers are modelled exactly: integers as integers, the      *)
(* quotients the code formats as rationals [num, den], and the numbers     *)
(* parsed back from a define as fixed-point values of 12 decimals held in  *)
(* two limbs, value = hi * 10^-6 + lo * 10^-12 with 0 <= lo < 10^6.        *)
(* Strings are sequences of one-character strings.                         *)
(***************************************************************************)
EXTENDS Integers, Sequences, FiniteSets, TLC

VARIABLES material, thrown

vars == <<material, thrown>>

(* ------------------------------ bounds -------------------------------- *)

\* setKernelSize is called with every integer of -MaxKernel .. MaxKernel.
MaxKernel == 3
\* setWorldDistanceThreshold is called with every integer of 0 .. MaxThreshold.
MaxThreshold == 2

(* ------------------------ strings and numbers ------------------------- *)

Limb == 10 ^ 6

DigitChars == <<"0", "1", "2", "3", "4", "5", "6", "7", "8", "9">>

StrNaN == <<"N", "a", "N">>
StrInfinity == <<"I", "n", "f", "i", "n", "i", "t", "y">>
StrNegInfinity == <<"-">> \o StrInfinity

Abs(n) == IF n < 0 THEN -n ELSE n

\* The % operator of JavaScript: the remainder takes the sign of the dividend.
JSRemainder(a, b) == IF a >= 0 THEN a % Abs(b) ELSE -((-a) % Abs(b))

\* The quotient cut towards zero, as (a / b) | 0 would give it.
TruncatingDiv(a, b) == IF a >= 0 THEN a \div b ELSE -((-a) \div b)

\* Math.floor of the quotient a / b of two integers, b > 0.
MathFloorDiv(a, b) == a \div b

\* An integer as a JavaScript number, and the quotient of two integers.
Integer(n) == [num |-> n, den |-> 1]
Quotient(a, b) == [num |-> a, den |-> b]

RECURSIVE NatDigits(_)
NatDigits(n) == IF n < 10 THEN <<n>> ELSE Append(NatDigits(n \div 10), n % 10)

RECURSIVE DigitsToNat(_)
DigitsToNat(ds) ==
    IF ds = <<>> THEN 0
    ELSE 10 * DigitsToNat(SubSeq(ds, 1, Len(ds) - 1)) + ds[Len(ds)]

\* Long division: the first k decimals of r / b, for 0 <= r < b.
RECURSIVE FractionDigits(_, _, _)
FractionDigits(r, b, k) ==
    IF k = 0 THEN <<>>
    ELSE <<(r * 10) \div b>> \o FractionDigits((r * 10) % b, b, k - 1)

\* The remainder left after those k decimals.
RECURSIVE FractionRemainder(_, _, _)
FractionRemainder(r, b, k) ==
    IF k = 0 THEN r ELSE FractionRemainder((r * 10) % b, b, k - 1)

\* A decimal digit sequence plus one.
RECURSIVE Increment(_)
Increment(ds) ==
    IF ds = <<>> THEN <<1>>
    ELSE IF ds[Len(ds)] = 9
         THEN Append(Increment(SubSeq(ds, 1, Len(ds) - 1)), 0)
         ELSE Append(SubSeq(ds, 1, Len(ds) - 1), ds[Len(ds)] + 1)

\* A decimal digit sequence times m, plus carry.
RECURSIVE TimesDigits(_, _, _)
TimesDigits(ds, m, carry) ==
    IF ds = <<>> THEN NatDigits(carry)
    ELSE LET p == ds[Len(ds)] * m + carry
         IN Append(TimesDigits(SubSeq(ds, 1, Len(ds) - 1), m, p \div 10), p % 10)

DigitsToString(ds) == [i \in 1..Len(ds) |-> DigitChars[ds[i] + 1]]

DigitValue(c) == CHOOSE d \in 0..9 : DigitChars[d + 1] = c

StringToDigits(s) == [i \in 1..Len(s) |-> DigitValue(s[i])]

\* Number.prototype.toFixed(f) of the number x.num / x.den: not finite gives
\* its name; otherwise the integer n nearest to x * 10^f (the larger one on a
\* tie), written with f decimals, and "-" in front when x < 0.
toFixed(x, f) ==
    IF x.den = 0
    THEN IF x.num = 0 THEN StrNaN
         ELSE IF x.num > 0 THEN StrInfinity ELSE StrNegInfinity
    ELSE LET neg == (x.num # 0) /\ ((x.num < 0) # (x.den < 0))
             a == Abs(x.num)
             b == Abs(x.den)
             down == NatDigits(a \div b) \o FractionDigits(a % b, b, f)
             n == IF 2 * FractionRemainder(a % b, b, f) >= b
                  THEN Increment(down) ELSE down
             whole == SubSeq(n, 1, Len(n) - f)
             frac == SubSeq(n, Len(n) - f + 1, Len(n))
         IN (IF neg THEN <<"-">> ELSE <<>>)
            \o DigitsToString(whole)
            \o (IF f > 0 THEN <<".">> \o DigitsToString(frac) ELSE <<>>)

\* A number parsed from a define: int + hi * 10^-6 + lo * 10^-12 with
\* 0 <= hi, lo < 10^6, or one of the three that are not finite.
Finite(int, hi, lo) == [kind |-> "finite", int |-> int, hi |-> hi, lo |-> lo]
NaN == [kind |-> "NaN", int |-> 0, hi |-> 0, lo |-> 0]
Infinity == [kind |-> "Infinity", int |-> 0, hi |-> 0, lo |-> 0]
NegInfinity == [kind |-> "-Infinity", int |-> 0, hi |-> 0, lo |-> 0]

\* Carries lo into hi and hi into int.
Normalize(int, hi, lo) ==
    LET h == hi + (lo \div Limb)
    IN Finite(int + (h \div Limb), h % Limb, lo % Limb)

FromInt(n) == Finite(n, 0, 0)

Negate(x) ==
    CASE x.kind = "finite" -> Normalize(-x.int, -x.hi, -x.lo)
      [] x.kind = "Infinity" -> NegInfinity
      [] x.kind = "-Infinity" -> Infinity
      [] OTHER -> NaN

\* The 6 decimal digits of a limb.
LimbDigits(n) == [i \in 1..6 |-> (n \div (10 ^ (6 - i))) % 10]

\* x * m for an integer m, digit by digit on the magnitudes.
Times(x, m) ==
    CASE x.kind = "finite" ->
             LET mag == IF x.int < 0 THEN Negate(x) ELSE x
                 ds == TimesDigits(NatDigits(mag.int) \o LimbDigits(mag.hi)
                                       \o LimbDigits(mag.lo), Abs(m), 0)
                 n == Len(ds)
                 product == Finite(DigitsToNat(SubSeq(ds, 1, n - 12)),
                                   DigitsToNat(SubSeq(ds, n - 11, n - 6)),
                                   DigitsToNat(SubSeq(ds, n - 5, n)))
             IN IF (x.int < 0) # (m < 0) THEN Negate(product) ELSE product
      [] x.kind = "NaN" -> NaN
      [] OTHER -> IF m = 0 THEN NaN
                  ELSE IF (x.kind = "Infinity") = (m > 0) THEN Infinity
                  ELSE NegInfinity

\* x - m for an integer m.
Minus(x, m) == IF x.kind = "finite" THEN Finite(x.int - m, x.hi, x.lo) ELSE x

\* Number(s) of a string that toFixed wrote (at most 12 decimals).
Number(s) ==
    IF s = StrNaN THEN NaN
    ELSE IF s = StrInfinity THEN Infinity
    ELSE IF s = StrNegInfinity THEN NegInfinity
    ELSE LET neg == s[1] = "-"
             body == IF neg THEN SubSeq(s, 2, Len(s)) ELSE s
             dots == {i \in 1..Len(body) : body[i] = "."}
             dot == IF dots = {} THEN Len(body) + 1 ELSE CHOOSE i \in dots : TRUE
             whole == StringToDigits(SubSeq(body, 1, dot - 1))
             given == StringToDigits(SubSeq(body, dot + 1, Len(body)))
             frac == given \o [i \in 1..(12 - Len(given)) |-> 0]
             mag == Finite(DigitsToNat(whole),
                           DigitsToNat(SubSeq(frac, 1, 6)),
                           DigitsToNat(SubSeq(frac, 7, 12)))
         IN IF neg THEN Negate(mag) ELSE mag

(* ----------------------------- depth codec ---------------------------- *)

\* viewZToOrthographicDepth(viewZ, near, far): the linear rescale of a view
\* depth into the normalized range of the camera planes.
viewZToOrthographicDepth(viewZ, near, far) ==
    Quotient(viewZ + near, near - far)

\* orthographicDepthToViewZ(depth, near, far): its inverse.
orthographicDepthToViewZ(depth, near, far) ==
    Minus(Times(depth, near - far), near)

(* ------------------------------ the material -------------------------- *)

KernelSizeError == <<"The kernel size must be an odd number">>
NoError == <<>>

Vector2(x, y) == [x |-> x, y |-> y]

\* The reciprocal 1.0 / n.
Reciprocal(n) == Quotient(1, n)

\* The object the ShaderMaterial constructor is given.
super ==
    [defines |-> [k \in {"DEPTH_PACKING", "DISTANCE_THRESHOLD"} |->
                     IF k = "DEPTH_PACKING" THEN <<"0">> ELSE <<"0", ".", "1">>],
     uniforms |-> [inputBuffer |-> "null",
                   depthBuffer |-> "null",
                   normalDepthBuffer |-> "null",
                   texelSize |-> Vector2(Integer(0), Integer(0)),
                   cameraNearFar |-> Vector2(0, 0),
                   scale |-> 1],
     needsUpdate |-> FALSE]

\* this.defines[key] = value
Define(this, key, value) ==
    [this EXCEPT !.defines = (key :> value) @@ this.defines]

\* delete this.defines[key]
Delete(this, key) ==
    [this EXCEPT !.defines = [k \in DOMAIN this.defines \ {key} |-> this.defines[k]]]

Defined(this, key) == key \in DOMAIN this.defines

MarkNeedsUpdate(this) == [this EXCEPT !.needsUpdate = TRUE]

set_maxVaryingVectors(this, value) ==
    Define(this, "MAX_VARYING_VECTORS", toFixed(Integer(value), 0))

get_kernelSize(this) == Number(this.defines["KERNEL_SIZE"])

\* The statements of the kernelSize setter after its check.
writeKernelSize(this, value) ==
    LET d1 == Define(this, "KERNEL_SIZE", toFixed(Integer(value), 0))
        d2 == Define(d1, "KERNEL_SIZE_HALF",
                     toFixed(Integer(MathFloorDiv(value, 2)), 0))
        d3 == Define(d2, "KERNEL_SIZE_SQ", toFixed(Integer(value * value), 0))
        d4 == Define(d3, "KERNEL_SIZE_SQ_HALF",
                     toFixed(Integer(MathFloorDiv(value * value, 2)), 0))
        d5 == Define(d4, "INV_KERNEL_SIZE_SQ",
                     toFixed(Quotient(1, value * value), 6))
    IN MarkNeedsUpdate(d5)

\* The setter with the flag raised ahead of the check.
set_kernelSize_flagFirst(this, value) ==
    IF JSRemainder(value, 2) = 0
    THEN [this |-> MarkNeedsUpdate(this), thrown |-> KernelSizeError]
    ELSE [this |-> writeKernelSize(this, value), thrown |-> NoError]

\* The setter with the check left out.
set_kernelSize_unchecked(this, value) ==
    [this |-> writeKernelSize(this, value), thrown |-> NoError]

\* The setter either throws, leaving `this` as it is at the throw, or returns.
set_kernelSize(this, value) ==
    IF JSRemainder(value, 2) = 0
    THEN [this |-> this, thrown |-> KernelSizeError]
    ELSE [this |-> writeKernelSize(this, value), thrown |-> NoError]

get_scale(this) == this.uniforms.scale

set_scale(this, value) == [this EXCEPT !.uniforms.scale = value]

get_near(this) == this.uniforms.cameraNearFar.x

get_far(this) == this.uniforms.cameraNearFar.y

set_inputBuffer(this, value) == [this EXCEPT !.uniforms.inputBuffer = value]

set_depthBuffer(this, value) == [this EXCEPT !.uniforms.depthBuffer = value]

\* The setter with the define never removed.
set_normalDepthBuffer_sticky(this, value) ==
    LET bound == [this EXCEPT !.uniforms.normalDepthBuffer = value]
    IN MarkNeedsUpdate(IF value # "null"
                       THEN Define(bound, "NORMAL_DEPTH", <<"1">>)
                       ELSE bound)

set_normalDepthBuffer(this, value) ==
    LET bound == [this EXCEPT !.uniforms.normalDepthBuffer = value]
    IN MarkNeedsUpdate(IF value # "null"
                       THEN Define(bound, "NORMAL_DEPTH", <<"1">>)
                       ELSE Delete(bound, "NORMAL_DEPTH"))

set_depthPacking(this, value) ==
    MarkNeedsUpdate(Define(this, "DEPTH_PACKING", toFixed(Integer(value), 0)))

get_bilateral(this) == Defined(this, "BILATERAL")

\* Values come as JavaScript writes them: "true", "false", "null".
set_bilateral(this, value) ==
    MarkNeedsUpdate(IF value # "null"
                    THEN Define(this, "BILATERAL", <<"1">>)
                    ELSE Delete(this, "BILATERAL"))

get_worldDistanceThreshold(this) ==
    Negate(orthographicDepthToViewZ(Number(this.defines["DISTANCE_THRESHOLD"]),
                                    get_near(this), get_far(this)))

\* The setter writing 6 decimals, as the kernel setter does.
set_worldDistanceThreshold_sixDecimals(this, value) ==
    LET threshold == viewZToOrthographicDepth(-value, get_near(this), get_far(this))
    IN MarkNeedsUpdate(Define(this, "DISTANCE_THRESHOLD", toFixed(threshold, 6)))

set_worldDistanceThreshold(this, value) ==
    LET threshold == viewZToOrthographicDepth(-value, get_near(this), get_far(this))
    IN MarkNeedsUpdate(Define(this, "DISTANCE_THRESHOLD", toFixed(threshold, 12)))

\* `if(camera)`: null and undefined are falsy, an object is truthy.
Truthy(camera) == camera.kind \notin {"null", "undefined"}

\* The method with the projection flag only ever raised.
copyCameraSettings_neverCleared(this, camera) ==
    IF Truthy(camera)
    THEN LET synced == [this EXCEPT !.uniforms.cameraNearFar =
                                        Vector2(camera.near, camera.far)]
         IN MarkNeedsUpdate(IF camera.kind = "PerspectiveCamera"
                            THEN Define(synced, "PERSPECTIVE_CAMERA", <<"1">>)
                            ELSE synced)
    ELSE this

\* The method holding the world-space threshold (to the nearest unit) fixed:
\* it writes the threshold again for the new planes.
copyCameraSettings_rescaling(this, camera) ==
    IF Truthy(camera)
    THEN LET world == get_worldDistanceThreshold(this)
             units == IF world.kind = "finite"
                      THEN world.int + ((2 * world.hi) \div Limb) ELSE 0
             synced == [this EXCEPT !.uniforms.cameraNearFar =
                                        Vector2(camera.near, camera.far)]
             flagged == IF camera.kind = "PerspectiveCamera"
                        THEN Define(synced, "PERSPECTIVE_CAMERA", <<"1">>)
                        ELSE Delete(synced, "PERSPECTIVE_CAMERA")
         IN set_worldDistanceThreshold(flagged, units)
    ELSE this

copyCameraSettings(this, camera) ==
    IF Truthy(camera)
    THEN LET synced == [this EXCEPT !.uniforms.cameraNearFar =
                                        Vector2(camera.near, camera.far)]
         IN MarkNeedsUpdate(IF camera.kind = "PerspectiveCamera"
                            THEN Define(synced, "PERSPECTIVE_CAMERA", <<"1">>)
                            ELSE Delete(synced, "PERSPECTIVE_CAMERA"))
    ELSE this

setSize(this, width, height) ==
    [this EXCEPT !.uniforms.texelSize = Vector2(Reciprocal(width), Reciprocal(height))]

\* new BoxBlurMaterial(options): the three setters in the order of the code.
constructor(options) ==
    LET b == set_bilateral(super, options.bilateral)
        k == set_kernelSize(b, options.kernelSize)
    IN [this |-> set_maxVaryingVectors(k.this, 8), thrown |-> k.thrown]

(* ------------------------------- inputs ------------------------------- *)

KernelSizes == -MaxKernel .. MaxKernel
Booleans == {"false", "true"}
Textures == {"null", "texture"}
Scales == {1, 2}
VaryingVectors == {8, 16}
DepthPackings == {0, 3201}
Thresholds == 0 .. MaxThreshold
Resolutions == {<<2, 1>>}

\* A far plane thirty million units behind the near plane.
FarDistant == 3 * 10 ^ 7 + 1

NoCameras == {[kind |-> k, near |-> 0, far |-> 0] : k \in {"null", "undefined"}}
Cameras ==
    [kind : {"PerspectiveCamera", "OrthographicCamera"},
     near : {1},
     far : {100, FarDistant}]

DefaultOptions == [bilateral |-> "false", kernelSize |-> 5]
\* The options of a construction; the even kernel size makes it throw.
Options == [bilateral : Booleans, kernelSize : {5, 6, 7}]

(* ------------------------------- actions ------------------------------ *)

\* A call that returns, leaving the material as `this`.
Returns(this) ==
    /\ material' = this
    /\ thrown' = NoError

Init ==
    \E options \in Options :
        /\ constructor(options).thrown = NoError
        /\ material = constructor(options).this
        /\ thrown = NoError

SetMaxVaryingVectors(value) ==
    Returns(set_maxVaryingVectors(material, value))

SetKernelSize(value) ==
    LET call == set_kernelSize(material, value)
    IN /\ material' = call.this
       /\ thrown' = call.thrown

SetScale(value) == Returns(set_scale(material, value))

SetInputBuffer(value) ==
    Returns(set_inputBuffer(material, value))

SetDepthBuffer(value) ==
    Returns(set_depthBuffer(material, value))

SetNormalDepthBuffer(value) ==
    Returns(set_normalDepthBuffer(material, value))

SetDepthPacking(value) ==
    Returns(set_depthPacking(material, value))

SetBilateral(value) == Returns(set_bilateral(material, value))

SetWorldDistanceThreshold(value) ==
    Returns(set_worldDistanceThreshold(material, value))

CopyCameraSettings(camera) ==
    Returns(copyCameraSettings(material, camera))

SetSize(width, height) ==
    Returns(setSize(material, width, height))

\* The pipeline recompiles the program of a material that needs it and
\* clears the flag.
Recompile ==
    /\ material.needsUpdate
    /\ Returns([material EXCEPT !.needsUpdate = FALSE])

Next ==
    \/ \E value \in VaryingVectors : SetMaxVaryingVectors(value)
    \/ \E value \in KernelSizes : SetKernelSize(value)
    \/ \E value \in Scales : SetScale(value)
    \/ \E value \in Textures : SetInputBuffer(value)
    \/ \E value \in Textures : SetDepthBuffer(value)
    \/ \E value \in Textures : SetNormalDepthBuffer(value)
    \/ \E value \in DepthPackings : SetDepthPacking(value)
    \/ \E value \in Booleans : SetBilateral(value)
    \/ \E value \in Thresholds : SetWorldDistanceThreshold(value)
    \/ \E camera \in Cameras \cup NoCameras : CopyCameraSettings(camera)
    \/ \E size \in Resolutions : SetSize(size[1], size[2])
    \/ Recompile

Spec == Init /\ [][Next]_vars

(* ------------------------------- claims ------------------------------- *)

Odd(n) == n % 2 = 1

Stored(this, key) == Number(this.defines[key])

\* Whether |x - v| < 1 for the integer v, and then x - v in units of 10^-12.
Near(x, v) == x.kind = "finite" /\ x.int - v \in {-1, 0}
UnitsFrom(x, v) == ((x.int - v) * Limb + x.hi) * Limb + x.lo

\* |x - v| <= 10^-6 * max(1, |v|): within 10^-6, relative or absolute.
WithinTolerance(x, v) ==
    /\ Near(x, v)
    /\ Abs(UnitsFrom(x, v)) <= Limb * (IF Abs(v) > 1 THEN Abs(v) ELSE 1)

\* |x - v| <= span / 2 * 10^-12: x is v but for the rounding of a 12-decimal
\* number that was multiplied by span.
WithinRounding(x, v, span) ==
    /\ Near(x, v)
    /\ 2 * Abs(UnitsFrom(x, v)) <= span

\* The four constants derived from the kernel size n, as `this` holds them:
\* floor(n/2), n*n, floor(n*n/2) exactly and 1/(n*n) rounded to 6 decimals.
DerivedFrom(this, n) ==
    /\ Stored(this, "KERNEL_SIZE_HALF") = FromInt(n \div 2)
    /\ Stored(this, "KERNEL_SIZE_SQ") = FromInt(n * n)
    /\ Stored(this, "KERNEL_SIZE_SQ_HALF") = FromInt((n * n) \div 2)
    /\ LET inv == Stored(this, "INV_KERNEL_SIZE_SQ")
       IN /\ inv.kind = "finite"
          /\ inv.lo = 0
          /\ 2 * Abs((inv.int * Limb + inv.hi) * n * n - Limb) <= n * n

\* C1: in every state, setKernelSize(n) succeeds iff n is odd; on success
\* kernelSize is n, the four derived constants are floor(n/2), n*n,
\* floor(n*n/2) and 1/(n*n) to 6 decimals, and getKernelSize() returns n.
C1_SetKernelSize ==
    \A n \in KernelSizes :
        LET call == set_kernelSize(material, n)
        IN /\ (call.thrown = NoError) <=> Odd(n)
           /\ Odd(n) => /\ get_kernelSize(call.this) = FromInt(n)
                        /\ DerivedFrom(call.this, n)

\* setKernelSize(3) has returned: the constants are (1, 9, 4, 0.111111).
C1_Witness ==
    /\ thrown = NoError
    /\ material.defines["KERNEL_SIZE"] = <<"3">>
    /\ material.defines["KERNEL_SIZE_HALF"] = <<"1">>
    /\ material.defines["KERNEL_SIZE_SQ"] = <<"9">>
    /\ material.defines["KERNEL_SIZE_SQ_HALF"] = <<"4">>
    /\ material.defines["INV_KERNEL_SIZE_SQ"] = <<"0", ".", "1", "1", "1", "1", "1", "1">>

\* C2: setKernelSize with an even value throws and leaves kernelSize, the
\* derived constants, every other define, every uniform and the flag as they
\* were.
C2_EvenRejected ==
    [][\A n \in KernelSizes :
          (~Odd(n) /\ SetKernelSize(n)) =>
              /\ thrown' = KernelSizeError
              /\ material' = material]_vars

\* An even size has just been rejected by a material of kernel size 3, after
\* the pipeline cleared the flag.
C2_Witness ==
    /\ thrown = KernelSizeError
    /\ get_kernelSize(material) = FromInt(3)
    /\ ~material.needsUpdate

\* C3: from a state with the flag clear, setSize leaves it clear, and
\* setKernelSize (odd), setBilateral, setNormalDepthBuffer,
\* setDepthPackingStrategy, syncCamera (camera present) and
\* setMaxVaryingVectors leave it set.
C3_DirtyFlag ==
    [][~material.needsUpdate =>
          /\ \A size \in Resolutions :
                SetSize(size[1], size[2]) => ~material'.needsUpdate
          /\ \A n \in KernelSizes :
                (Odd(n) /\ SetKernelSize(n)) => material'.needsUpdate
          /\ \A b \in Booleans : SetBilateral(b) => material'.needsUpdate
          /\ \A t \in Textures : SetNormalDepthBuffer(t) => material'.needsUpdate
          /\ \A d \in DepthPackings : SetDepthPacking(d) => material'.needsUpdate
          /\ \A c \in Cameras : CopyCameraSettings(c) => material'.needsUpdate
          /\ \A v \in VaryingVectors :
                SetMaxVaryingVectors(v) => material'.needsUpdate]_vars

\* C4: getBilateral() returns the boolean last supplied, by setBilateral(b) or
\* by the construction option, and a material constructed with the default
\* options has bilateral false and kernel size 5.
C4_Bilateral ==
    [][/\ \A b \in Booleans :
             SetBilateral(b) => (get_bilateral(material') <=> b = "true")
       /\ \A options \in Options :
             material = constructor(options).this =>
                 (get_bilateral(material) <=> options.bilateral = "true")
       /\ material = constructor(DefaultOptions).this =>
             /\ ~get_bilateral(material)
             /\ get_kernelSize(material) = FromInt(5)]_vars

\* C5 as claimed: with the planes synced (near < far),
\* setWorldDistanceThreshold(v) followed by getWorldDistanceThreshold()
\* returns v within the tolerance of 10^-6.
C5_RoundTripWithinTolerance ==
    \A v \in Thresholds :
        get_near(material) < get_far(material) =>
            WithinTolerance(
                get_worldDistanceThreshold(set_worldDistanceThreshold(material, v)), v)

\* C5, amended: the define holds the encoded depth of -v rounded to 12
\* decimals, so the getter returns v within (far - near) / 2 * 10^-12, which is
\* within 10^-6 while far - near <= 2 * 10^6.
C5_RoundTripWithinRounding ==
    \A v \in Thresholds :
        get_near(material) < get_far(material) =>
            LET back == get_worldDistanceThreshold(
                            set_worldDistanceThreshold(material, v))
                span == get_far(material) - get_near(material)
            IN /\ WithinRounding(back, v, span)
               /\ span <= 2 * Limb => WithinTolerance(back, v)

\* setWorldDistanceThreshold(2) under the planes (1, 100): the define is
\* 1/99 to 12 decimals and the getter gives 1.999999999999.
C5_Witness ==
    /\ material.uniforms.cameraNearFar = Vector2(1, 100)
    /\ material.defines["DISTANCE_THRESHOLD"] =
           <<"0", ".", "0", "1", "0", "1", "0", "1", "0", "1", "0", "1", "0", "1">>
    /\ get_worldDistanceThreshold(material) = Finite(1, 999999, 999999)

\* C6: syncCamera without a camera changes nothing and throws nothing; with a
\* camera it stores (near, far), sets the perspective flag iff the camera is a
\* perspective camera, and raises the flag.
C6_SyncCamera ==
    [][/\ \A c \in NoCameras :
             CopyCameraSettings(c) => (material' = material /\ thrown' = NoError)
       /\ \A c \in Cameras :
             CopyCameraSettings(c) =>
                 /\ get_near(material') = c.near
                 /\ get_far(material') = c.far
                 /\ Defined(material', "PERSPECTIVE_CAMERA")
                        <=> c.kind = "PerspectiveCamera"
                 /\ material'.needsUpdate
                 /\ thrown' = NoError]_vars

\* An orthographic camera with the planes (1, 100) has been synced.
C6_Witness ==
    /\ material.uniforms.cameraNearFar = Vector2(1, 100)
    /\ ~Defined(material, "PERSPECTIVE_CAMERA")
    /\ material.needsUpdate

\* C7: usesNormalDepthBuffer (the define NORMAL_DEPTH) is set exactly when the
\* handle last given to setNormalDepthBuffer, which the uniform holds, is not
\* null; it is unset while the setter was never called.
C7_UsesNormalDepthBuffer ==
    Defined(material, "NORMAL_DEPTH") <=> material.uniforms.normalDepthBuffer # "null"

\* A handle is bound and the define is set.
C7_Witness ==
    /\ material.uniforms.normalDepthBuffer = "texture"
    /\ Defined(material, "NORMAL_DEPTH")

\* The kernel size the material reports is an integer.
WholeKernelSize ==
    LET k == get_kernelSize(material)
    IN k.kind = "finite" /\ k.hi = 0 /\ k.lo = 0

KernelSizeNow == get_kernelSize(material).int

\* C8 as claimed: kernelSize is always an odd positive integer whose derived
\* constants are floor(k/2), k*k, floor(k*k/2) and 1/(k*k).
C8_OddPositive ==
    /\ WholeKernelSize
    /\ Odd(KernelSizeNow)
    /\ KernelSizeNow > 0
    /\ DerivedFrom(material, KernelSizeNow)

\* C8, amended: kernelSize is always an odd integer, of either sign, whose
\* derived constants are floor(k/2), k*k, floor(k*k/2) and 1/(k*k).
C8_Odd ==
    /\ WholeKernelSize
    /\ Odd(KernelSizeNow)
    /\ DerivedFrom(material, KernelSizeNow)

\* setKernelSize(-3) has returned.
C8_Witness ==
    /\ thrown = NoError
    /\ material.defines["KERNEL_SIZE"] = <<"-", "3">>
    /\ material.defines["KERNEL_SIZE_HALF"] = <<"-", "2">>

\* `after` is `before` but for the uniform `name`.
OnlyUniform(before, after, name) ==
    /\ after.defines = before.defines
    /\ after.needsUpdate = before.needsUpdate
    /\ \A u \in DOMAIN before.uniforms \ {name} : after.uniforms[u] = before.uniforms[u]

\* C9: setScale, setInputBuffer, setDepthBuffer and setSize change their own
\* uniform only, and every step that changes a define leaves the flag set.
C9_DefinesAndUniforms ==
    [][/\ \A x \in Scales :
             SetScale(x) => (OnlyUniform(material, material', "scale")
                             /\ get_scale(material') = x)
       /\ \A t \in Textures :
             SetInputBuffer(t) => (OnlyUniform(material, material', "inputBuffer")
                                   /\ material'.uniforms.inputBuffer = t)
       /\ \A t \in Textures :
             SetDepthBuffer(t) => (OnlyUniform(material, material', "depthBuffer")
                                   /\ material'.uniforms.depthBuffer = t)
       /\ \A size \in Resolutions :
             SetSize(size[1], size[2]) =>
                 /\ OnlyUniform(material, material', "texelSize")
                 /\ material'.uniforms.texelSize =
                        Vector2(Reciprocal(size[1]), Reciprocal(size[2]))
       /\ material'.defines # material.defines => material'.needsUpdate]_vars

\* C10: in every state, syncCamera leaves the stored threshold, the kernel
\* constants, bilateral, the depth packing and the buffer bindings as they
\* are, and the getter then decodes the threshold that was stored, with the
\* new planes.
C10_SyncKeepsThreshold ==
    \A c \in Cameras \cup NoCameras :
        LET synced == copyCameraSettings(material, c)
        IN /\ DOMAIN synced.defines \ {"PERSPECTIVE_CAMERA"}
                  = DOMAIN material.defines \ {"PERSPECTIVE_CAMERA"}
           /\ \A k \in DOMAIN material.defines \ {"PERSPECTIVE_CAMERA"} :
                  synced.defines[k] = material.defines[k]
           /\ \A u \in {"inputBuffer", "depthBuffer", "normalDepthBuffer"} :
                  synced.uniforms[u] = material.uniforms[u]
           /\ Truthy(c) =>
                  get_worldDistanceThreshold(synced) =
                      Negate(orthographicDepthToViewZ(
                                 Stored(material, "DISTANCE_THRESHOLD"),
                                 c.near, c.far))

\* The threshold 2 was stored under the planes (1, 100) and the far plane is
\* now at 30000001: the define is still 1/99 to 12 decimals and the getter
\* gives 303031.30303.
C10_Witness ==
    /\ material.uniforms.cameraNearFar = Vector2(1, FarDistant)
    /\ material.defines["DISTANCE_THRESHOLD"] =
           <<"0", ".", "0", "1", "0", "1", "0", "1", "0", "1", "0", "1", "0", "1">>
    /\ get_worldDistanceThreshold(material) = Finite(303031, 303030, 0)

====
